---- MODULE Spec2Model ----
(***************************************************************************)
(* Model of the Obsidian plugin in src/src/main.ts: the vault "create"     *)
(* handler, processImage, detectBestRotation, scoreImageReadability and    *)
(* the helpers they call.                                                  *)
(*                                                                         *)
(* Text is a sequence of one-character strings, so that the string         *)
(* functions of the plugin are computed character by character.  A vault   *)
(* path is the pair <<folder path, file name>>: the vault is taken to      *)
(* compare paths in normalised form.                                       *)
(***************************************************************************)
EXTENDS Integers, Sequences, FiniteSets, TLC

VARIABLES
    vault,      \* the files and folders of the vault: path -> entry
    settings,   \* this.settings
    edits,      \* number of edits made in the settings tab
    run         \* one record per "create" event: the handler's position and locals

vars == <<vault, settings, edits, run>>

(***************************************************************************)
(* Bounds of the model                                                     *)
(***************************************************************************)
\* how many times the user edits the API key in the settings tab
MaxEdits == 1
\* how many numbered copies "<name> (k).md" the vault may hold initially
MaxCopies == 2

(***************************************************************************)
(* Text                                                                    *)
(***************************************************************************)
NULL == <<"null">>          \* a missing value (null or undefined)

Empty == << >>

\* One-character strings stand for themselves; "NBSP" is U+00A0, "BOM" is
\* U+FEFF, "ZWSP" is U+200B and "BQ" is the backquote.
\* Characters that JavaScript's \s and String.prototype.trim treat as blank.
Blank == {" ", "\n", "\t", "NBSP", "BOM"}

Digits == <<"0", "1", "2", "3", "4", "5", "6", "7", "8", "9">>

IsDigit(c) == \E i \in 1..10 : Digits[i] = c

DigitValue(c) == (CHOOSE i \in 1..10 : Digits[i] = c) - 1

RECURSIVE IntToText(_)
\* the decimal text of a non-negative integer, as a template literal writes it
IntToText(n) ==
    IF n < 10 THEN <<Digits[n + 1]>>
    ELSE IntToText(n \div 10) \o <<Digits[(n % 10) + 1]>>

RECURSIVE TrimStart(_)
TrimStart(s) ==
    IF s # Empty /\ Head(s) \in Blank THEN TrimStart(Tail(s)) ELSE s

RECURSIVE TrimEnd(_)
TrimEnd(s) ==
    IF s # Empty /\ s[Len(s)] \in Blank THEN TrimEnd(SubSeq(s, 1, Len(s) - 1)) ELSE s

\* String.prototype.trim
Trim(s) == TrimEnd(TrimStart(s))

RECURSIVE Without(_, _)
\* s with every character of the set cs removed
Without(s, cs) ==
    IF s = Empty THEN Empty
    ELSE IF Head(s) \in cs THEN Without(Tail(s), cs)
    ELSE <<Head(s)>> \o Without(Tail(s), cs)

(***************************************************************************)
(* Numbers: parseInt and Number.isFinite                                   *)
(***************************************************************************)
NaN == [nan |-> TRUE, val |-> 0]

Num(n) == [nan |-> FALSE, val |-> n]

RECURSIVE DigitsValue(_, _)
\* the value of the longest prefix of digits of s, continuing from acc
DigitsValue(s, acc) ==
    IF s # Empty /\ IsDigit(Head(s))
    THEN DigitsValue(Tail(s), (acc * 10) + DigitValue(Head(s)))
    ELSE acc

\* parseInt(text, 10): blanks are skipped, then an optional sign, then the
\* longest run of decimal digits; NaN when there is no digit.
ParseInt10(text) ==
    LET t    == TrimStart(text)
        neg  == t # Empty /\ Head(t) = "-"
        body == IF t # Empty /\ Head(t) \in {"-", "+"} THEN Tail(t) ELSE t
    IN  IF body = Empty \/ ~IsDigit(Head(body)) THEN NaN
        ELSE Num(IF neg THEN 0 - DigitsValue(body, 0) ELSE DigitsValue(body, 0))

\* Number.isFinite
IsFinite(x) == ~x.nan

(***************************************************************************)
(* Image buffers                                                           *)
(***************************************************************************)
\* The bytes of image file id as stored in the vault.
FileBytes(id) == [img |-> id, turn |-> 0, enc |-> FALSE]

\* rotateArrayBuffer: the image is drawn turned by degrees on a canvas and
\* encoded again (canvas.toBlob); the result is a new buffer.
rotateArrayBuffer(buffer, degrees) ==
    [img |-> buffer.img, turn |-> (buffer.turn + degrees) % 360, enc |-> TRUE]

\* arrayBufferToBase64: btoa over the bytes, an injective encoding.
arrayBufferToBase64(buffer) == [b64 |-> buffer]

(***************************************************************************)
(* Searching text                                                          *)
(***************************************************************************)
\* pat occurs in s at position i
OccursAt(s, pat, i) ==
    /\ i >= 1
    /\ i + Len(pat) - 1 <= Len(s)
    /\ SubSeq(s, i, i + Len(pat) - 1) = pat

\* String.prototype.indexOf from position from (1-based; 0 when absent)
IndexFrom(s, pat, from) ==
    IF \E i \in from..Len(s) : OccursAt(s, pat, i)
    THEN CHOOSE i \in from..Len(s) :
            /\ OccursAt(s, pat, i)
            /\ \A j \in from..(i - 1) : ~OccursAt(s, pat, j)
    ELSE 0

\* String.prototype.lastIndexOf (1-based; 0 when absent)
LastIndexOf(s, pat) ==
    IF \E i \in 1..Len(s) : OccursAt(s, pat, i)
    THEN CHOOSE i \in 1..Len(s) :
            /\ OccursAt(s, pat, i)
            /\ \A j \in (i + 1)..Len(s) : ~OccursAt(s, pat, j)
    ELSE 0

Includes(s, pat) == IndexFrom(s, pat, 1) # 0

UpperCase == <<"A", "B", "C", "D", "E", "F", "G", "H", "I", "J", "K", "L", "M",
               "N", "O", "P", "Q", "R", "S", "T", "U", "V", "W", "X", "Y", "Z">>

LowerCase == <<"a", "b", "c", "d", "e", "f", "g", "h", "i", "j", "k", "l", "m",
               "n", "o", "p", "q", "r", "s", "t", "u", "v", "w", "x", "y", "z">>

LowerChar(c) ==
    IF \E i \in 1..26 : UpperCase[i] = c
    THEN LowerCase[CHOOSE i \in 1..26 : UpperCase[i] = c]
    ELSE c

\* String.prototype.toLowerCase
ToLower(s) == [i \in 1..Len(s) |-> LowerChar(s[i])]

(***************************************************************************)
(* extractJsonFromText, tryParseJson, sanitizeFileName                     *)
(***************************************************************************)
\* Three backquotes.
Fence == <<"BQ", "BQ", "BQ">>

JsonTag == <<"j", "s", "o", "n">>

\* text.match(fenceRegex): the match starts at the first fence, takes the tag
\* "json" (in any case) when it follows and a closing fence comes after it,
\* and its group runs up to the next fence, without the blanks around it.
\* When no fence follows the tag, the tag is left to the group.  NULL when
\* nothing matches.
FenceGroup(text) ==
    LET open   == IndexFrom(text, Fence, 1)
        tagged == /\ open # 0
                  /\ OccursAt(ToLower(text), JsonTag, open + 3)
                  /\ IndexFrom(text, Fence, open + 7) # 0
        from   == IF tagged THEN open + 7 ELSE open + 3
        close  == IF open = 0 THEN 0 ELSE IndexFrom(text, Fence, from)
    IN  IF close = 0 THEN NULL ELSE Trim(SubSeq(text, from, close - 1))

\* extractJsonFromText
extractJsonFromText(text) ==
    IF text = NULL \/ text = Empty THEN NULL
    ELSE
    LET t          == Trim(IF Head(text) = "BOM" THEN Tail(text) ELSE text)
        fenceMatch == FenceGroup(t)
        firstBrace == IndexFrom(t, <<"{">>, 1)
        lastBrace  == LastIndexOf(t, <<"}">>)
    IN  IF fenceMatch # NULL /\ fenceMatch # Empty THEN Trim(fenceMatch)
        ELSE IF firstBrace # 0 /\ lastBrace # 0 /\ lastBrace > firstBrace
             THEN Trim(SubSeq(t, firstBrace, lastBrace))
        ELSE IF Trim(t) # Empty THEN Trim(t) ELSE NULL

\* candidate.replace(/^\u200B/g, "").replace(/\u00A0/g, " ").trim()
Cleaned(candidate) ==
    LET a == IF candidate # Empty /\ Head(candidate) = "ZWSP" THEN Tail(candidate)
             ELSE candidate
        b == [i \in 1..Len(a) |-> IF a[i] = "NBSP" THEN " " ELSE a[i]]
    IN  Trim(b)

\* Characters removed by sanitizeFileName: \ / : " * ? < > |
Forbidden == {"\\", "/", ":", "\"", "*", "?", "<", ">", "|"}

Contact == <<"c", "o", "n", "t", "a", "c", "t">>

\* sanitizeFileName with a slip: the result is not trimmed.
sanitizeFileNameUntrimmed(name) ==
    LET s == Without(name, Forbidden)
    IN  IF s # Empty THEN s ELSE Contact

\* sanitizeFileName
sanitizeFileName(name) ==
    LET s == Trim(Without(name, Forbidden))
    IN  IF s # Empty THEN s ELSE Contact

(***************************************************************************)
(* JSON values                                                             *)
(*                                                                         *)
(* A value is [t, v, items]: t its type, v its text (the characters of a   *)
(* string, the digits of a number), items the elements of an array of      *)
(* strings.  A parsed document is [kind, fields]: property access on a     *)
(* value that is not an object yields undefined for every field.           *)
(***************************************************************************)
Fields == {"name", "company", "position", "phones", "emails", "website",
           "address", "rawText"}

Undefined == [t |-> "undefined", v |-> Empty, items |-> <<>>]

JStr(s) == [t |-> "str", v |-> s, items |-> <<>>]

JArr(a) == [t |-> "arr", v |-> Empty, items |-> a]

NoFields == [f \in Fields |-> Undefined]

JObject(given) ==
    [kind |-> "obj",
     fields |-> [f \in Fields |-> IF f \in DOMAIN given THEN given[f] ELSE Undefined]]

Foo == <<"F", "o", "o">>

TextEmptyObject == <<"{", "}">>

TextNameFoo ==
    <<"{", "\"", "n", "a", "m", "e", "\"", ":", "\"", "F", "o", "o", "\"", "}">>

TextNotJson == <<"n", "o">>

\* The spelling of each field's key.
FieldChars ==
    [name     |-> <<"n", "a", "m", "e">>,
     company  |-> <<"c", "o", "m", "p", "a", "n", "y">>,
     position |-> <<"p", "o", "s", "i", "t", "i", "o", "n">>,
     phones   |-> <<"p", "h", "o", "n", "e", "s">>,
     emails   |-> <<"e", "m", "a", "i", "l", "s">>,
     website  |-> <<"w", "e", "b", "s", "i", "t", "e">>,
     address  |-> <<"a", "d", "d", "r", "e", "s", "s">>,
     rawText  |-> <<"r", "a", "w", "T", "e", "x", "t">>]

\* The order in which a document lists its fields.
FieldOrder == <<"name", "company", "position", "phones", "emails", "website",
                "address", "rawText">>

RECURSIVE Join(_, _)
\* Array.prototype.join
Join(items, sep) ==
    IF items = <<>> THEN Empty
    ELSE IF Len(items) = 1 THEN items[1]
    ELSE items[1] \o sep \o Join(Tail(items), sep)

Quoted(s) == <<"\"">> \o s \o <<"\"">>

\* The JSON text of a value
ValueText(x) ==
    CASE x.t = "str" -> Quoted(x.v)
      [] x.t = "arr" ->
            <<"[">> \o Join([i \in 1..Len(x.items) |-> Quoted(x.items[i])], <<",">>)
                    \o <<"]">>
      [] OTHER       -> x.v

\* The JSON text of the object that has the fields of the record given
Stringify(given) ==
    LET keys == SelectSeq(FieldOrder, LAMBDA f : f \in DOMAIN given)
    IN  <<"{">>
        \o Join([i \in 1..Len(keys) |->
                    Quoted(FieldChars[keys[i]]) \o <<":">> \o ValueText(given[keys[i]])],
                <<",">>)
        \o <<"}">>

JNum(digits) == [t |-> "num", v |-> digits, items |-> <<>>]

\* The contact records the service answers with.
Documents ==
    << [name |-> JStr(Foo)],
       [name |-> JStr(<<" ", " ">>)],
       [name |-> JStr(<<" ", "/", " ", "F", "o", "o">>)],
       [name |-> JStr(<<"A", "/", "B", ":", "C">>)],
       [name |-> JStr(<<"?", "?", "?">>)],
       [name |-> JStr(<<"F", "ZWSP", "o">>)],
       [name |-> JNum(<<"7">>)],
       [name |-> JStr(Foo), company |-> JStr(<<"A", "c">>),
        phones |-> JArr(<< <<"1">>, <<"2">> >>),
        emails |-> JArr(<< <<"a", "@", "b">> >>),
        rawText |-> JStr(<<"h", "i">>)],
       [name |-> JStr(Foo), company |-> JStr(Empty), phones |-> JArr(<<>>)],
       [name |-> JStr(Foo), phones |-> JStr(<<"1", "2">>)] >>

TextNull == <<"n", "u", "l", "l">>

TextNumber == <<"4", "2">>

\* JSON.parse on the documents the model lets the service send back; any other
\* text is a syntax error.
JsonParse(text) ==
    CASE text = TextEmptyObject \/ text = <<"{", " ", "}">> ->
            [ok |-> TRUE, value |-> JObject(<<>>)]
      [] text = TextNull ->
            [ok |-> TRUE, value |-> [kind |-> "null", fields |-> NoFields]]
      [] text = TextNumber ->
            [ok |-> TRUE, value |-> [kind |-> "num", fields |-> NoFields]]
      [] \E i \in 1..Len(Documents) : text = Stringify(Documents[i]) ->
            [ok |-> TRUE,
             value |-> JObject(Documents[CHOOSE i \in 1..Len(Documents) :
                                            text = Stringify(Documents[i])])]
      [] OTHER -> [ok |-> FALSE, value |-> [kind |-> "none", fields |-> NoFields]]

\* The error tryParseJson throws: its message and the properties candidate and
\* original as a handler reads them (NULL: the error has no such property).
NoError == [message |-> "", candidate |-> NULL, original |-> NULL,
            status |-> 0, text |-> NULL]

ErrorOf(message) == [NoError EXCEPT !.message = message]

\* tryParseJson: ok is FALSE when it throws error; value is what it returns;
\* candidate and cleaned are its locals.
tryParseJson(text) ==
    LET candidate == extractJsonFromText(text)
        cleaned   == Cleaned(candidate)
        result    == JsonParse(cleaned)
    IN  IF candidate = NULL
        THEN [ok |-> FALSE, value |-> [kind |-> "none", fields |-> NoFields],
              candidate |-> NULL, cleaned |-> NULL,
              error |-> ErrorOf("No JSON found in response text")]
        ELSE [ok |-> result.ok, value |-> result.value,
              candidate |-> candidate, cleaned |-> cleaned,
              error |-> IF result.ok THEN NoError ELSE ErrorOf("JSON.parse failed")]

(***************************************************************************)
(* Files and the vault                                                     *)
(***************************************************************************)
\* TFolder.path of the vault's root and of the folder "cards"
RootDir == <<"/">>

CardsDir == <<"c", "a", "r", "d", "s">>

\* TFile.extension of the file with this name: the part after the last dot.
Extension(fileName) ==
    LET i == LastIndexOf(fileName, <<".">>)
    IN  IF i = 0 THEN Empty ELSE SubSeq(fileName, i + 1, Len(fileName))

\* TFile.name
FileName(file) == file.basename \o <<".">> \o file.extension

\* The vault path of a TFile
FilePath(file) == <<file.dir, FileName(file)>>

Md == <<".", "m", "d">>

NoEmbed == [alt |-> Empty, mime |-> "", data |-> arrayBufferToBase64(FileBytes(0))]

NoNote == [lines |-> <<>>, embed |-> NoEmbed]

\* The content of a note the vault holds before any run.
OldNote == [lines |-> << <<"o", "l", "d">> >>, embed |-> NoEmbed]

FolderEntry == [kind |-> "folder", id |-> 0, note |-> NoNote]

ImageEntry(id) == [kind |-> "file", id |-> id, note |-> NoNote]

NoteEntry(content) == [kind |-> "file", id |-> 0, note |-> content]

\* vault.getAbstractFileByPath(path) is not null
Exists(v, path) == path \in DOMAIN v

\* vault.getAbstractFileByPath(path) instanceof TFile
IsTFile(v, path) == Exists(v, path) /\ v[path].kind = "file"

\* the function v without the path p
Remove(v, p) == [q \in (DOMAIN v) \ {p} |-> v[q]]

\* getMimeType
getMimeType(file) ==
    LET ext == ToLower(file.extension)
    IN  CASE ext = <<"j", "p", "g">>      -> "image/jpeg"
          [] ext = <<"j", "p", "e", "g">> -> "image/jpeg"
          [] ext = <<"p", "n", "g">>      -> "image/png"
          [] ext = <<"g", "i", "f">>      -> "image/gif"
          [] ext = <<"w", "e", "b", "p">> -> "image/webp"
          [] ext = <<"b", "m", "p">>      -> "image/bmp"
          [] OTHER                        -> "image/jpeg"

\* file.extension.match(/(png|jpg|jpeg|webp)/i)
\* IsImageExtension with a slip: any file with an extension is taken.
IsAnyExtension(extension) == Len(extension) > 0

IsImageExtension(extension) ==
    LET ext == ToLower(extension)
    IN  \/ Includes(ext, <<"p", "n", "g">>)
        \/ Includes(ext, <<"j", "p", "g">>)
        \/ Includes(ext, <<"j", "p", "e", "g">>)
        \/ Includes(ext, <<"w", "e", "b", "p">>)

(***************************************************************************)
(* Requests to the inference service                                       *)
(***************************************************************************)
\* The payload and headers that scoreImageReadability posts.
ScoreRequest(base64, apiKey) ==
    [kind |-> "score", model |-> <<"gpt-4o-mini">>, mime |-> "image/jpeg",
     data |-> base64, auth |-> apiKey]

\* The payload and headers that processImage posts.
ExtractRequest(base64, apiKey) ==
    [kind |-> "extract", model |-> <<"gpt-4o-mini">>, mime |-> "image/jpeg",
     data |-> base64, auth |-> apiKey]

\* scoreImageReadability with a slip: the whole reply must be digits
\* (Number(text) in place of parseInt).
scoreImageReadabilityStrict(content) ==
    LET text == IF content = NULL THEN <<"0">> ELSE content
    IN  IF text # Empty /\ \A i \in 1..Len(text) : IsDigit(text[i])
        THEN DigitsValue(text, 0) ELSE 0

\* The score scoreImageReadability returns for a reply with status 200:
\* content ?? "0", parseInt, Number.isFinite(score) ? score : 0
scoreImageReadability(content) ==
    LET text  == IF content = NULL THEN <<"0">> ELSE content
        score == ParseInt10(text)
    IN  IF IsFinite(score) THEN score.val ELSE 0

(***************************************************************************)
(* The note: name, body and path                                           *)
(***************************************************************************)
UnknownContact ==
    <<"U", "n", "k", "n", "o", "w", "n", " ", "C", "o", "n", "t", "a", "c", "t">>

Dash == <<"-">>

\* JavaScript truthiness of a JSON value
Truthy(x) ==
    CASE x.t \in {"undefined", "null"} -> FALSE
      [] x.t = "str"                  -> x.v # Empty
      [] x.t = "num"                  -> x.v # <<"0">>
      [] x.t = "bool"                 -> x.v = <<"t", "r", "u", "e">>
      [] OTHER                        -> TRUE

\* ContactName with a slip: the name is tested before it is trimmed
\* (parsed.name || file.basename || "Unknown Contact", then trim).
ContactNameTrimsLate(parsed, file) ==
    LET n        == parsed.fields.name
        fallback == IF file.basename # Empty THEN file.basename ELSE UnknownContact
    IN  CASE parsed.kind = "null"           -> [ok |-> FALSE, name |-> Empty]
          [] n.t \in {"undefined", "null"}  -> [ok |-> TRUE, name |-> fallback]
          [] n.t = "str"                    ->
                [ok |-> TRUE, name |-> IF n.v # Empty THEN Trim(n.v) ELSE fallback]
          [] OTHER                          -> [ok |-> FALSE, name |-> Empty]

\* parsed.name?.trim() || file.basename || "Unknown Contact"
\* [ok, name]; ok is FALSE when the expression throws a TypeError.
ContactName(parsed, file) ==
    LET n        == parsed.fields.name
        fallback == IF file.basename # Empty THEN file.basename ELSE UnknownContact
    IN  CASE parsed.kind = "null"           -> [ok |-> FALSE, name |-> Empty]
          [] n.t \in {"undefined", "null"}  -> [ok |-> TRUE, name |-> fallback]
          [] n.t = "str"                    ->
                [ok |-> TRUE, name |-> IF Trim(n.v) # Empty THEN Trim(n.v) ELSE fallback]
          [] OTHER                          -> [ok |-> FALSE, name |-> Empty]

\* the text a template literal writes for a value
ToText(x) == IF x.t = "arr" THEN Join(x.items, <<",">>) ELSE x.v

\* parsed.field || fallback, as written into the note
Scalar(x, fallback) == IF Truthy(x) THEN ToText(x) ELSE fallback

\* x?.length is truthy
HasLength(x) ==
    \/ x.t = "arr" /\ x.items # <<>>
    \/ x.t = "str" /\ x.v # Empty

\* x?.length ? x.map(p => "- " + p).join("\n") : "-", one line per element;
\* ok is FALSE when x has a length but no map (a string)
Bullets(x) ==
    IF ~HasLength(x) THEN [ok |-> TRUE, lines |-> <<Dash>>]
    ELSE IF x.t # "arr" THEN [ok |-> FALSE, lines |-> <<>>]
    ELSE [ok |-> TRUE,
          lines |-> [i \in 1..Len(x.items) |-> <<"-", " ">> \o x.items[i]]]

\* noteContent: the lines of the note, then the embed.  The label of each
\* line is written as one token: "company:", "position:", "phones:",
\* "email:", "website:", "address:", "---" and "fulltext:".
NoteContent(parsed, imageEmbed) ==
    LET f      == parsed.fields
        phones == Bullets(f.phones)
        emails == Bullets(f.emails)
    IN  [ok |-> phones.ok /\ emails.ok,
         content |->
            [lines |->
                << <<"company:">> \o Scalar(f.company, Dash),
                   <<"position:">> \o Scalar(f.position, Dash),
                   <<"phones:">> >>
                \o phones.lines
                \o << <<"email:">> >>
                \o emails.lines
                \o << <<"website:">> \o Scalar(f.website, Dash),
                      <<"address:">> \o Scalar(f.address, Dash),
                      Empty,
                      <<"---">>,
                      Empty,
                      <<"fulltext:">>,
                      Scalar(f.rawText, Empty) >>,
             embed |-> imageEmbed]]

\* The image embed composed from the file's basename and the data URL.
ImageEmbed(file, mimeType, base64) ==
    [alt |-> file.basename, mime |-> mimeType, data |-> base64]

\* The path written by the template for folder, safeName and counter;
\* counter 0 stands for the path without a number.
NumberedPath(folder, safeName, counter) ==
    IF counter = 0 THEN <<folder, safeName \o Md>>
    ELSE <<folder, safeName \o <<" ", "(">> \o IntToText(counter) \o <<")">> \o Md>>

RECURSIVE Probe(_, _, _, _, _)
\* while (getAbstractFileByPath(newPath)) { newPath = ...(counter); counter++ }
Probe(v, folder, safeName, counter, newPath) ==
    IF Exists(v, newPath)
    THEN Probe(v, folder, safeName, counter + 1, NumberedPath(folder, safeName, counter))
    ELSE newPath

\* The note path chosen for safeName in folder, given the vault v.
ChooseNotePath(v, folder, safeName) ==
    LET notePath == NumberedPath(folder, safeName, 0)
    IN  IF IsTFile(v, notePath) THEN Probe(v, folder, safeName, 1, notePath)
        ELSE notePath

(***************************************************************************)
(* detectBestRotation                                                      *)
(***************************************************************************)
rotations == <<0, 90, 180, 270>>

NoBuffer == FileBytes(0)

\* let bestScore = -1; let bestRotation = 0; let bestBuffer = buffer
BestInit(buffer) == [score |-> -1, rotation |-> 0, buffer |-> buffer]

\* BestUpdate with a slip: the best buffer is not replaced.
BestUpdateKeepsBuffer(best, score, deg, rotatedBuffer) ==
    IF score > best.score
    THEN [score |-> score, rotation |-> deg, buffer |-> best.buffer]
    ELSE best

\* if (score > bestScore) { bestScore = score; bestRotation = deg; bestBuffer = rotatedBuffer }
BestUpdate(best, score, deg, rotatedBuffer) ==
    IF score > best.score
    THEN [score |-> score, rotation |-> deg, buffer |-> rotatedBuffer]
    ELSE best

\* the HTTP status that both callers accept
StatusOk == 200

\* The statuses the service answers with: success, or a refusal.
Statuses == {StatusOk, 401}

\* The body of a response that is a refusal (response.text).
Refusal == <<"d", "e", "n", "i", "e", "d">>

\* new Error(`OpenAI API error: ${response.status} ${response.text}`)
ApiError(status, text) ==
    [ErrorOf("OpenAI API error") EXCEPT !.status = status, !.text = text]

(***************************************************************************)
(* The runs                                                                *)
(*                                                                         *)
(* Run r is the handling of the "create" event of image file r.  pc is the *)
(* await the handler is suspended at:                                      *)
(*   idle    the event has not been delivered yet                          *)
(*   timer   the one second timer                                          *)
(*   read    vault.readBinary                                              *)
(*   rotate  rotateArrayBuffer                                             *)
(*   score   requestUrl in scoreImageReadability                           *)
(*   extract requestUrl in processImage                                    *)
(*   rename  vault.rename                                                  *)
(*   create  vault.create                                                  *)
(*   delete  vault.delete                                                  *)
(* and ignored, nokey, failed, done once the handler has returned.         *)
(***************************************************************************)
Runs == {1, 2}

\* The image file of each run as the vault holds it initially.
Image(r) ==
    IF r = 1
    THEN [dir |-> CardsDir, basename |-> <<"c", "a", "r", "d">>,
          extension |-> <<"j", "p", "g">>]
    ELSE [dir |-> RootDir, basename |-> <<"s", "c", "a", "n">>,
          extension |-> <<"p", "n", "g">>]

NoParsed == [kind |-> "none", fields |-> NoFields]

InitRun(r) ==
    [pc            |-> "idle",
     file          |-> Image(r),       \* the TFile, kept current by the vault
     mimeType      |-> "",
     apiKey        |-> Empty,          \* detectBestRotation's argument
     i             |-> 0,              \* index into rotations of the current angle
     best          |-> BestInit(NoBuffer),
     rotatedBuffer |-> NoBuffer,
     scored        |-> <<>>,           \* history: angle, buffer, reply and score
     rotation      |-> 0,              \* detectBestRotation's result
     buffer        |-> NoBuffer,
     imageEmbed    |-> NoEmbed,
     content       |-> NULL,           \* the content of the extraction reply
     candidate     |-> NULL,           \* tryParseJson's candidate
     cleaned       |-> NULL,           \* the text handed to JSON.parse
     status        |-> 0,              \* response.status of the last response
     err           |-> NoError,        \* the error thrown by a request, parsing or naming
     parsed        |-> NoParsed,
     name          |-> Empty,
     safeName      |-> Empty,
     noteContent   |-> NoNote,
     notePath      |-> <<RootDir, Empty>>,
     reqs          |-> <<>>,           \* history: the requests sent, in order
     events        |-> 0,              \* create events raised for this run's files
     calls         |-> 0,              \* of these, those that passed the extension test
     notices       |-> <<>>]           \* history: the notices shown, in order

\* DEFAULT_SETTINGS; the name of a model is written as one token.
DEFAULT_SETTINGS == [openaiApiKey |-> Empty, model |-> <<"gpt-4o-mini">>]

KeySk == <<"s", "k">>

\* The texts the user may type into the API key field.
KeyInputs == {Empty, KeySk, <<" ">>}

\* The initial vault: the folder "cards", the two images, and some of the
\* notes Foo.md, Foo (1).md, ...; the entry at Foo.md may be a folder.
InitVault(copies, kind) ==
    [p \in {<<RootDir, CardsDir>>} \cup {FilePath(Image(r)) : r \in Runs}
           \cup {NumberedPath(RootDir, Foo, k) : k \in copies} |->
        IF p = <<RootDir, CardsDir>> THEN FolderEntry
        ELSE IF \E r \in Runs : p = FilePath(Image(r))
             THEN ImageEntry(CHOOSE r \in Runs : p = FilePath(Image(r)))
        ELSE IF p = NumberedPath(RootDir, Foo, 0) /\ kind = "folder" THEN FolderEntry
        ELSE NoteEntry(OldNote)]

\* After construction the settings are DEFAULT_SETTINGS; a key saved earlier
\* is one the user has typed in (OnChangeApiKey).
Init ==
    /\ \E n \in 0..MaxCopies, kind \in {"file", "folder"} :
          /\ (n = 0) => kind = "file"
          /\ vault = InitVault(0..(n - 1), kind)
    /\ settings = DEFAULT_SETTINGS
    /\ edits = 0
    /\ run = [r \in Runs |-> InitRun(r)]

(***************************************************************************)
(* Steps of a run, as functions of the run's record                        *)
(***************************************************************************)
Notify(rec, notice) == [rec EXCEPT !.notices = Append(@, notice)]

\* Catch with a slip: the error is reported where it is thrown and again in
\* the catch block.
CatchNotifiesTwice(rec) ==
    [Notify(Notify(rec, "error"), "error") EXCEPT
        !.pc = "failed", !.i = 0, !.best = BestInit(NoBuffer),
        !.rotatedBuffer = NoBuffer, !.scored = <<>>]

\* catch (err) { console.error(...); new Notice(...) }: the run ends; the
\* locals of the functions that were left are gone.
Catch(rec) ==
    [Notify(rec, "error") EXCEPT
        !.pc = "failed", !.i = 0, !.best = BestInit(NoBuffer),
        !.rotatedBuffer = NoBuffer, !.scored = <<>>]

\* scoreImageReadability up to its await: the request goes out.
SendScore(rec) ==
    [rec EXCEPT
        !.pc = "score",
        !.reqs = Append(@, ScoreRequest(arrayBufferToBase64(rec.rotatedBuffer),
                                        rec.apiKey))]

\* One turn of the loop of detectBestRotation up to its first await: angle 0
\* takes the buffer itself, any other angle awaits rotateArrayBuffer.
Iterate(rec, i) ==
    IF rotations[i] = 0
    THEN SendScore([rec EXCEPT !.i = i, !.rotatedBuffer = rec.buffer])
    ELSE [rec EXCEPT !.i = i, !.pc = "rotate"]

\* detectBestRotation(originalBuffer, mimeType, apiKey) up to its first await
StartDetect(rec, originalBuffer, apiKey) ==
    Iterate([rec EXCEPT !.buffer = originalBuffer, !.apiKey = apiKey,
                        !.best = BestInit(originalBuffer)], 1)

\* AfterDetect with a slip: the extraction request carries the buffer that
\* was read, not the one detectBestRotation returned.
AfterDetectSendsOriginal(rec, result, key) ==
    LET base64 == arrayBufferToBase64(result.buffer)
        a == [Notify(rec, "rotation") EXCEPT
                !.i = 0, !.best = BestInit(NoBuffer), !.rotatedBuffer = NoBuffer,
                !.rotation = result.rotation, !.buffer = result.buffer,
                !.imageEmbed = ImageEmbed(rec.file, rec.mimeType, base64)]
    IN  IF key = Empty
        THEN [Notify(a, "nokey") EXCEPT !.pc = "nokey"]
        ELSE [Notify(a, "sending") EXCEPT
                !.pc = "extract",
                !.reqs = Append(@, ExtractRequest(arrayBufferToBase64(rec.buffer), key))]

\* processImage from the return of detectBestRotation to its next await or
\* return: the notice, the embed, the check of the API key, the request.
AfterDetect(rec, result, key) ==
    LET base64 == arrayBufferToBase64(result.buffer)
        a == [Notify(rec, "rotation") EXCEPT
                !.i = 0, !.best = BestInit(NoBuffer), !.rotatedBuffer = NoBuffer,
                !.rotation = result.rotation, !.buffer = result.buffer,
                !.imageEmbed = ImageEmbed(rec.file, rec.mimeType, base64)]
    IN  IF key = Empty
        THEN [Notify(a, "nokey") EXCEPT !.pc = "nokey"]
        ELSE [Notify(a, "sending") EXCEPT
                !.pc = "extract",
                !.reqs = Append(@, ExtractRequest(base64, key))]

\* Scored with a slip: the loop is left as soon as an angle is rated 10.
ScoredEarlyExit(rec, content, key) ==
    LET score == scoreImageReadability(content)
        deg   == rotations[rec.i]
        best  == BestUpdate(rec.best, score, deg, rec.rotatedBuffer)
        a     == [rec EXCEPT
                    !.best = best,
                    !.scored = Append(@, [deg |-> deg, buffer |-> rec.rotatedBuffer,
                                          content |-> content, score |-> score])]
    IN  IF rec.i < Len(rotations) /\ score < 10
        THEN Iterate(a, rec.i + 1)
        ELSE AfterDetect(a, [rotation |-> best.rotation, buffer |-> best.buffer], key)

\* The loop of detectBestRotation from the reply to a scoring request to the
\* next await: the score is compared, then the next angle or the return.
Scored(rec, content, key) ==
    LET score == scoreImageReadability(content)
        deg   == rotations[rec.i]
        best  == BestUpdate(rec.best, score, deg, rec.rotatedBuffer)
        a     == [rec EXCEPT
                    !.best = best,
                    !.scored = Append(@, [deg |-> deg, buffer |-> rec.rotatedBuffer,
                                          content |-> content, score |-> score])]
    IN  IF rec.i < Len(rotations)
        THEN Iterate(a, rec.i + 1)
        ELSE AfterDetect(a, [rotation |-> best.rotation, buffer |-> best.buffer], key)

\* processImage from the reply to the extraction request to vault.rename
Extracted(rec, content) ==
    LET text   == IF content = NULL THEN TextEmptyObject ELSE content
        parsed == tryParseJson(text)
        name   == ContactName(parsed.value, rec.file)
        a      == [rec EXCEPT !.scored = <<>>, !.content = text,
                              !.candidate = parsed.candidate,
                              !.cleaned = parsed.cleaned]
    IN  IF ~parsed.ok THEN Catch([a EXCEPT !.err = parsed.error])
        ELSE IF ~name.ok
             THEN Catch([a EXCEPT !.parsed = parsed.value, !.err = ErrorOf("TypeError")])
        ELSE [Notify(a, "recognized") EXCEPT
                !.pc = "rename",
                !.parsed = parsed.value,
                !.name = name.name,
                !.safeName = sanitizeFileName(name.name)]

\* imgName = safeName + "." + file.extension, a path in the vault's root
ImagePath(rec) == <<RootDir, rec.safeName \o <<".">> \o rec.file.extension>>

\* processImage from the return of vault.rename to vault.create; v is the
\* vault and file the TFile after the rename.
Renamed(rec, v, file) ==
    LET note == NoteContent(rec.parsed, rec.imageEmbed)
        a    == [rec EXCEPT !.file = file]
    IN  IF ~note.ok THEN Catch([a EXCEPT !.err = ErrorOf("TypeError")])
        ELSE [a EXCEPT
                !.pc = "create",
                !.noteContent = note.content,
                !.notePath = ChooseNotePath(v, file.dir, rec.safeName)]

(***************************************************************************)
(* Actions                                                                 *)
(***************************************************************************)
Set(r, rec) == run' = [run EXCEPT ![r] = rec]

\* The "create" handler's count of the events it is given and of those whose
\* file passes its extension test.
Handled(rec, extension) ==
    [rec EXCEPT !.events = @ + 1,
                !.calls = IF IsImageExtension(extension) THEN @ + 1 ELSE @]

\* The return of vault.create: the vault has raised the "create" event of
\* the note, which the handler tests as any other; then the notice.
NoteCreated(rec) == Notify(Handled(rec, Extension(rec.notePath[2])), "created")

\* The vault delivers the "create" event of image file r to the handler
\* registered in onload: the extension test, the notice, the timer.
OnCreate(r) ==
    /\ run[r].pc = "idle"
    /\ Exists(vault, FilePath(run[r].file))
    /\ IF IsImageExtension(run[r].file.extension)
       THEN Set(r, [Notify(Handled(run[r], run[r].file.extension), "processing")
                       EXCEPT !.pc = "timer"])
       ELSE Set(r, [Handled(run[r], run[r].file.extension) EXCEPT !.pc = "ignored"])
    /\ UNCHANGED <<vault, settings, edits>>

\* The timer fires: processImage is called and awaits vault.readBinary.
TimerFired(r) ==
    /\ run[r].pc = "timer"
    /\ Set(r, [run[r] EXCEPT !.pc = "read"])
    /\ UNCHANGED <<vault, settings, edits>>

\* vault.readBinary returns (or fails); getMimeType; detectBestRotation is
\* called with the API key of the settings and sends its first request.
ReadDone(r) ==
    /\ run[r].pc = "read"
    /\ \E ok \in BOOLEAN :
          LET path == FilePath(run[r].file)
          IN  IF ok /\ IsTFile(vault, path)
              THEN Set(r, StartDetect(
                              [run[r] EXCEPT !.mimeType = getMimeType(run[r].file)],
                              FileBytes(vault[path].id), settings.openaiApiKey))
              ELSE Set(r, Catch(run[r]))
    /\ UNCHANGED <<vault, settings, edits>>

\* rotateArrayBuffer returns the rotated buffer, or fails (no 2D context, no
\* blob); the scoring request for it goes out.
RotateDone(r) ==
    /\ run[r].pc = "rotate"
    /\ \E ok \in BOOLEAN :
          IF ok
          THEN Set(r, SendScore([run[r] EXCEPT !.rotatedBuffer =
                            rotateArrayBuffer(run[r].buffer, rotations[run[r].i])]))
          ELSE Set(r, Catch(run[r]))
    /\ UNCHANGED <<vault, settings, edits>>

\* ScoreResponse with a slip: a refusal counts as the score 0.
ScoreResponseCountsZero(r, texts) ==
    /\ run[r].pc = "score"
    /\ \E status \in Statuses, content \in texts :
          Set(r, Scored([run[r] EXCEPT !.status = status],
                        IF status # StatusOk THEN <<"0">> ELSE content,
                        settings.openaiApiKey))
    /\ UNCHANGED <<vault, settings, edits>>

\* The reply to a scoring request arrives: status and content come from the
\* service; texts is the set of contents it may send.
ScoreResponse(r, texts) ==
    /\ run[r].pc = "score"
    /\ \E status \in Statuses, content \in texts :
          IF status # StatusOk
          THEN Set(r, Catch([run[r] EXCEPT !.status = status,
                                           !.err = ApiError(status, Refusal)]))
          ELSE Set(r, Scored([run[r] EXCEPT !.status = status], content,
                             settings.openaiApiKey))
    /\ UNCHANGED <<vault, settings, edits>>

\* The reply to the extraction request arrives.
ExtractResponse(r, texts) ==
    /\ run[r].pc = "extract"
    /\ \E status \in Statuses, content \in texts :
          IF status # StatusOk
          THEN Set(r, Catch([run[r] EXCEPT !.status = status,
                                           !.err = ApiError(status, Refusal)]))
          ELSE Set(r, Extracted([run[r] EXCEPT !.status = status], content))
    /\ UNCHANGED <<vault, settings, edits>>

\* RenameDone with a slip: the image is copied to its new name, not moved.
RenameDoneKeepsSource(r) ==
    /\ run[r].pc = "rename"
    /\ \E ok \in BOOLEAN :
          LET from == FilePath(run[r].file)
              to   == ImagePath(run[r])
              file == [dir |-> RootDir, basename |-> run[r].safeName,
                       extension |-> run[r].file.extension]
              v    == (to :> vault[from]) @@ vault
          IN  IF ok /\ Exists(vault, from) /\ ~Exists(vault, to)
              THEN /\ vault' = v
                   /\ Set(r, Renamed(run[r], v, file))
              ELSE /\ vault' = vault
                   /\ Set(r, Catch(run[r]))
    /\ UNCHANGED <<settings, edits>>

\* RenameDone with a slip: the rename replaces a file at the target path.
RenameDoneReplaces(r) ==
    /\ run[r].pc = "rename"
    /\ \E ok \in BOOLEAN :
          LET from == FilePath(run[r].file)
              to   == ImagePath(run[r])
              file == [dir |-> RootDir, basename |-> run[r].safeName,
                       extension |-> run[r].file.extension]
              v    == (to :> vault[from]) @@ Remove(vault, from)
          IN  IF ok /\ Exists(vault, from)
              THEN /\ vault' = v
                   /\ Set(r, Renamed(run[r], v, file))
              ELSE /\ vault' = vault
                   /\ Set(r, Catch(run[r]))
    /\ UNCHANGED <<settings, edits>>

\* vault.rename(file, imgName) completes: it fails when the file is gone or
\* the target path is taken, else the file moves and the TFile follows it;
\* then the note body and the note path, and vault.create is called.
RenameDone(r) ==
    /\ run[r].pc = "rename"
    /\ \E ok \in BOOLEAN :
          LET from == FilePath(run[r].file)
              to   == ImagePath(run[r])
              file == [dir |-> RootDir, basename |-> run[r].safeName,
                       extension |-> run[r].file.extension]
              v    == (to :> vault[from]) @@ Remove(vault, from)
          IN  IF ok /\ Exists(vault, from) /\ ~Exists(vault, to)
              THEN /\ vault' = v
                   /\ Set(r, Renamed(run[r], v, file))
              ELSE /\ vault' = vault
                   /\ Set(r, Catch(run[r]))
    /\ UNCHANGED <<settings, edits>>

\* CreateDone with a slip: the image is deleted before the note is created.
CreateDoneDeletesFirst(r) ==
    /\ run[r].pc = "create"
    /\ \E ok \in BOOLEAN :
          LET v == Remove(vault, FilePath(run[r].file))
          IN  IF ok /\ ~Exists(v, run[r].notePath)
              THEN /\ vault' = (run[r].notePath :> NoteEntry(run[r].noteContent)) @@ v
                   /\ Set(r, [NoteCreated(run[r]) EXCEPT !.pc = "done"])
              ELSE /\ vault' = v
                   /\ Set(r, Catch(run[r]))
    /\ UNCHANGED <<settings, edits>>

\* CreateDone with a slip: the note is written whether or not the path is
\* taken (vault.modify or adapter.write in place of vault.create).
CreateDoneOverwrites(r) ==
    /\ run[r].pc = "create"
    /\ \E ok \in BOOLEAN :
          IF ok
          THEN /\ vault' = (run[r].notePath :> NoteEntry(run[r].noteContent)) @@ vault
               /\ Set(r, [NoteCreated(run[r]) EXCEPT !.pc = "delete"])
          ELSE /\ vault' = vault
               /\ Set(r, Catch(run[r]))
    /\ UNCHANGED <<settings, edits>>

\* vault.create(notePath, noteContent) completes: it fails when the path is
\* taken; else the note exists, and vault.delete is called.
CreateDone(r) ==
    /\ run[r].pc = "create"
    /\ \E ok \in BOOLEAN :
          IF ok /\ ~Exists(vault, run[r].notePath)
          THEN /\ vault' = (run[r].notePath :> NoteEntry(run[r].noteContent)) @@ vault
               /\ Set(r, [NoteCreated(run[r]) EXCEPT !.pc = "delete"])
          ELSE /\ vault' = vault
               /\ Set(r, Catch(run[r]))
    /\ UNCHANGED <<settings, edits>>

\* DeleteDone with a slip: the run awaits a promise that is never settled.
DeleteDoneNeverReturns(r) ==
    /\ run[r].pc = "delete"
    /\ UNCHANGED vars

\* vault.delete(file) completes.
DeleteDone(r) ==
    /\ run[r].pc = "delete"
    /\ \E ok \in BOOLEAN :
          LET path == FilePath(run[r].file)
          IN  IF ok /\ Exists(vault, path)
              THEN /\ vault' = Remove(vault, path)
                   /\ Set(r, [run[r] EXCEPT !.pc = "done"])
              ELSE /\ vault' = vault
                   /\ Set(r, Catch(run[r]))
    /\ UNCHANGED <<settings, edits>>

\* The user edits the API key in the settings tab: onChange stores the
\* trimmed value and saves the settings.
OnChangeApiKey ==
    /\ edits < MaxEdits
    /\ \E value \in KeyInputs :
          settings' = [settings EXCEPT !.openaiApiKey = Trim(value)]
    /\ edits' = edits + 1
    /\ UNCHANGED <<vault, run>>

\* The texts the user may type into the model field.
ModelInputs == {<<"gpt-4o">>, <<" ">>}

\* The user edits the model in the settings tab: onChange stores the trimmed
\* value, or the default model when that is empty, and saves the settings.
OnChangeModel ==
    /\ edits < MaxEdits
    /\ \E value \in ModelInputs :
          settings' = [settings EXCEPT !.model =
                          IF Trim(value) # Empty THEN Trim(value)
                          ELSE DEFAULT_SETTINGS.model]
    /\ edits' = edits + 1
    /\ UNCHANGED <<vault, run>>

\* The contents of a reply to a scoring request: a missing content, numbers
\* inside and outside 0..10, and texts that are no number or more than one.
ScoreTexts ==
    {NULL, <<"7">>, <<"1", "0">>, <<"4", "2">>, <<"-", "1">>, <<"-", "3">>,
     <<"a", "b", "c">>, <<" ", "7", "/", "1", "0">>}

\* The replies of a service that rates every image 7.
SteadyScoreTexts == {<<"7">>}

\* The contents of a reply to the extraction request.
ExtractTexts == {NULL, TextNameFoo, TextNotJson}

\* Two images arrive in a vault that may hold notes of the same name; the
\* service rates every image alike.
Next ==
    \/ \E r \in Runs : OnCreate(r)
    \/ \E r \in Runs : TimerFired(r)
    \/ \E r \in Runs : ReadDone(r)
    \/ \E r \in Runs : RotateDone(r)
    \/ \E r \in Runs : ScoreResponse(r, SteadyScoreTexts)
    \/ \E r \in Runs : ExtractResponse(r, ExtractTexts)
    \/ \E r \in Runs : RenameDone(r)
    \/ \E r \in Runs : CreateDone(r)
    \/ \E r \in Runs : DeleteDone(r)
    \/ OnChangeApiKey

Spec == Init /\ [][Next]_vars

\* One image arrives and the service may rate each angle with any of
\* ScoreTexts; the API key is the one loadSettings found.
InitRot ==
    /\ vault = InitVault({}, "file")
    /\ settings \in [openaiApiKey : {Empty, KeySk}, model : {DEFAULT_SETTINGS.model}]
    /\ edits = 0
    /\ run = [r \in Runs |-> InitRun(r)]

NextRot ==
    \/ OnCreate(1)
    \/ TimerFired(1)
    \/ ReadDone(1)
    \/ RotateDone(1)
    \/ ScoreResponse(1, ScoreTexts)
    \/ ExtractResponse(1, ExtractTexts)
    \/ RenameDone(1)
    \/ CreateDone(1)
    \/ DeleteDone(1)

SpecRot == InitRot /\ [][NextRot]_vars

\* The contents of a reply to the extraction request when the service may
\* wrap its answer: no content, no text, text that is no JSON, each of the
\* Documents bare, and a document inside a fence, inside prose, and behind
\* marks that do not print.
ReplyTexts ==
    {NULL, Empty, <<" ", "\n">>, TextNotJson, TextNull, TextNumber, <<"}", " ", "{">>}
    \cup {Stringify(Documents[i]) : i \in 1..Len(Documents)}
    \cup {Fence \o JsonTag \o <<"\n">> \o TextNameFoo \o <<"\n">> \o Fence,
          <<"x", " ">> \o Fence \o TextNameFoo \o Fence \o <<" ", "{", "}">>,
          Fence \o JsonTag \o <<"\n">> \o Fence,
          <<"H", "i", " ">> \o TextNameFoo \o <<" ", "o", "k">>,
          <<"BOM">> \o TextNameFoo,
          <<"ZWSP">> \o TextNull,
          <<"ZWSP", "ZWSP", "n", "o">>,
          <<"{", "NBSP", "}">>}

\* One image arrives in a vault that may hold notes named Foo and an
\* unrelated file Foo.jpg; the API key is set; the service may answer the
\* extraction request with any of ReplyTexts, and the user may edit the model.
InitNote ==
    /\ \E n \in 0..MaxCopies, taken \in BOOLEAN :
          vault = IF taken
                  THEN (<<RootDir, Foo \o <<".">> \o Image(1).extension>>
                            :> NoteEntry(OldNote)) @@ InitVault(0..(n - 1), "file")
                  ELSE InitVault(0..(n - 1), "file")
    /\ settings = [DEFAULT_SETTINGS EXCEPT !.openaiApiKey = KeySk]
    /\ edits = 0
    /\ run = [r \in Runs |-> InitRun(r)]

NextNote ==
    \/ OnCreate(1)
    \/ TimerFired(1)
    \/ ReadDone(1)
    \/ RotateDone(1)
    \/ ScoreResponse(1, SteadyScoreTexts)
    \/ ExtractResponse(1, ReplyTexts)
    \/ RenameDone(1)
    \/ CreateDone(1)
    \/ DeleteDone(1)
    \/ OnChangeModel

SpecNote == InitNote /\ [][NextNote]_vars

\* The steps of run r once its handler has been called: each is the return
\* or the failure of the call the run awaits.
RunStep(r) ==
    \/ TimerFired(r)
    \/ ReadDone(r)
    \/ RotateDone(r)
    \/ ScoreResponse(r, SteadyScoreTexts)
    \/ ExtractResponse(r, ReplyTexts)
    \/ RenameDone(r)
    \/ CreateDone(r)
    \/ DeleteDone(r)

\* SpecNote where every call the run awaits returns or fails in the end.
SpecNoteFair == SpecNote /\ WF_vars(RunStep(1))

(***************************************************************************)
(* Properties                                                              *)
(***************************************************************************)
\* Image r is a file of the vault, under whatever path.
ImageHeld(r) == \E p \in DOMAIN vault : vault[p].kind = "file" /\ vault[p].id = r

\* p holds a note (a file that is not one of the images).
IsNote(v, p) == p \in DOMAIN v /\ v[p].kind = "file" /\ v[p].id = 0

\* The notes of the vault whose embed carries the bytes of image r: the notes
\* that run r has created.
NotesOf(r) ==
    {p \in DOMAIN vault : IsNote(vault, p) /\ vault[p].note.embed.data.b64.img = r}

\* vault.create of run r has completed successfully.
NoteMade(r) ==
    /\ \E i \in 1..Len(run[r].notices) : run[r].notices[i] = "created"
    /\ IsNote(vault, run[r].notePath)
    /\ vault[run[r].notePath].note = run[r].noteContent

\* detectBestRotation of run r has returned.
Detected(r) == \E i \in 1..Len(run[r].notices) : run[r].notices[i] = "rotation"

\* The scoring requests of run r, in the order sent.
ScoreRequests(r) == SelectSeq(run[r].reqs, LAMBDA q : q.kind = "score")

\* The angle by which the image of a request is turned from the file's bytes.
AngleOf(q) == q.data.b64.turn

FourAngles == <<0, 90, 180, 270>>

\* C1: when the API key setting is empty, a run issues no request and leaves
\* its image where and as it was.  (Stated as claimed; the code violates it.)
C1_NoRequestWithoutKey ==
    \A r \in Runs :
        (settings.openaiApiKey = Empty /\ edits = 0) =>
            /\ run[r].reqs = <<>>
            /\ run[r].file = Image(r)
            /\ IsTFile(vault, FilePath(Image(r)))

\* C2: at every moment of every run, the image is still a file of the vault
\* or the note of the run has been created: the image is removed only after
\* vault.create has succeeded.
C2_ImageOrNote == \A r \in Runs : ImageHeld(r) \/ NoteMade(r)

\* a run has removed its image (after creating its note)
C2_Witness == \E r \in Runs : ~ImageHeld(r) /\ NoteMade(r) /\ run[r].pc = "done"

\* C3: no step of any run removes, replaces or changes a note that exists:
\* every note stays at its path with its content.
C3_NotesKept ==
    [][\A p \in DOMAIN vault :
          IsNote(vault, p) => (p \in DOMAIN vault' /\ vault'[p] = vault[p])]_vars

\* a run has created its note in a vault that held Foo.md, which is as it was
C3_Witness ==
    \E r \in Runs :
        /\ NoteMade(r)
        /\ run[r].safeName = Foo
        /\ run[r].notePath # NumberedPath(RootDir, Foo, 0)
        /\ IsNote(vault, NumberedPath(RootDir, Foo, 0))
        /\ vault[NumberedPath(RootDir, Foo, 0)].note = OldNote

\* The path the claim names: the plain path when nothing exists there, else
\* the numbered path with the least number k >= 1 at which nothing exists.
LeastFreePath(v, folder, safeName) ==
    IF ~Exists(v, NumberedPath(folder, safeName, 0))
    THEN NumberedPath(folder, safeName, 0)
    ELSE LET free(k) == ~Exists(v, NumberedPath(folder, safeName, k))
             k == CHOOSE n \in 1..(Cardinality(DOMAIN v) + 1) :
                     free(n) /\ \A m \in 1..(n - 1) : ~free(m)
         IN  NumberedPath(folder, safeName, k)

\* C4: the note path a run chooses is the plain path when that path does not
\* exist, else the numbered path with the least free number.  (Stated as
\* claimed; the code violates it.)
C4_LeastFreePathChosen ==
    [][\A r \in Runs :
          (run[r].pc = "rename" /\ run'[r].pc = "create") =>
              run'[r].notePath =
                  LeastFreePath(vault', run'[r].file.dir, run'[r].safeName)]_vars

C6_EmbedNamesRenamedImage ==
    \A r \in Runs :
        run[r].pc \in {"create", "delete", "done"} =>
            run[r].noteContent.embed.alt \in
                {run[r].safeName, run[r].safeName \o <<".">> \o run[r].file.extension}

\* C7: the scoring requests of a run are for the angles 0, 90, 180, 270 in
\* that order, one per angle, and detectBestRotation returns only after all
\* four, whatever the scores.
C7_FourAnglesInOrder ==
    \A r \in Runs :
        LET sent == ScoreRequests(r)
        IN  /\ Len(sent) <= 4
            /\ \A i \in 1..Len(sent) : AngleOf(sent[i]) = FourAngles[i]
            /\ Detected(r) => Len(sent) = 4
            /\ run[r].pc \in {"extract", "nokey"} =>
                  /\ Len(run[r].scored) = 4
                  /\ \A i \in 1..4 : run[r].scored[i].deg = FourAngles[i]

\* detectBestRotation has returned although the first angle was rated 10
C7_Witness ==
    /\ run[1].pc = "extract"
    /\ Len(ScoreRequests(1)) = 4
    /\ run[1].scored[1].score = 10

\* C8: detectBestRotation returns the lowest angle among those with the
\* maximum score; its score is not below that of angle 0; and with all scores
\* 0 it returns angle 0.  (Stated as claimed; the code violates it.)
C8_LowestAngleOfMaxScore ==
    \A r \in Runs :
        (run[r].pc \in {"extract", "nokey"}) =>
            LET sc == run[r].scored
                w  == CHOOSE i \in 1..4 : sc[i].deg = run[r].rotation
            IN  /\ \A i \in 1..4 : sc[i].score <= sc[w].score
                /\ \A i \in 1..(w - 1) : sc[i].score < sc[w].score
                /\ sc[w].score >= sc[1].score
                /\ (\A i \in 1..4 : sc[i].score = 0) => run[r].rotation = 0

\* C9: the buffer detectBestRotation returns is the one scored for the angle
\* it returns; for angle 0 it is the buffer passed in; and the request for
\* angle 0 carries that buffer, not a rotated one.
C9_BufferOfReturnedAngle ==
    \A r \in Runs :
        /\ (run[r].pc \in {"extract", "nokey"}) =>
              /\ \E i \in 1..4 :
                    /\ run[r].scored[i].deg = run[r].rotation
                    /\ run[r].scored[i].buffer = run[r].buffer
              /\ run[r].rotation = 0 => run[r].buffer = FileBytes(r)
        /\ ScoreRequests(r) # <<>> =>
              ScoreRequests(r)[1].data = arrayBufferToBase64(FileBytes(r))

\* detectBestRotation has returned an angle other than 0
C9_Witness ==
    /\ run[1].pc = "extract"
    /\ run[1].rotation = 180
    /\ run[1].buffer = rotateArrayBuffer(FileBytes(1), 180)

\* C10: every score scoreImageReadability returns is in 0..10.  (Stated as
\* claimed; the code violates it.)
C10_ScoreInRange ==
    \A r \in Runs :
        \A i \in 1..Len(run[r].scored) : run[r].scored[i].score \in 0..10

RECURSIVE DecimalOf(_)
\* the number that a sequence of digits writes
DecimalOf(d) ==
    IF d = <<>> THEN 0
    ELSE (10 * DecimalOf(SubSeq(d, 1, Len(d) - 1))) + DigitValue(d[Len(d)])

\* The integer a reply starts with, as [found, val]: blanks, an optional
\* sign, then digits as far as they go.
LeadingInteger(text) ==
    LET lead == CHOOSE n \in 0..Len(text) :
                    /\ \A i \in 1..n : text[i] \in Blank
                    /\ n < Len(text) => text[n + 1] \notin Blank
        sign == IF lead < Len(text) /\ text[lead + 1] \in {"-", "+"} THEN 1 ELSE 0
        from == lead + sign + 1
        to   == CHOOSE n \in (from - 1)..Len(text) :
                    /\ \A i \in from..n : IsDigit(text[i])
                    /\ n < Len(text) => ~IsDigit(text[n + 1])
        val  == DecimalOf(SubSeq(text, from, to))
    IN  [found |-> to >= from,
         val   |-> IF sign = 1 /\ text[lead + 1] = "-" THEN 0 - val ELSE val]

\* C11: for a reply with status 200 scoreImageReadability returns a score:
\* 0 when the content is missing or does not start with a base-10 integer,
\* else the integer the content starts with.
C11_ScoreOfReply ==
    \A r \in Runs :
        \A i \in 1..Len(run[r].scored) :
            LET e == run[r].scored[i]
            IN  e.score = IF e.content = NULL \/ ~LeadingInteger(e.content).found
                          THEN 0
                          ELSE LeadingInteger(e.content).val

\* the four replies were a missing content, text without a number, a number
\* followed by text, and a negative number
C11_Witness ==
    /\ Len(run[1].scored) = 4
    /\ run[1].scored[1].content = NULL /\ run[1].scored[1].score = 0
    /\ run[1].scored[2].content = <<"a", "b", "c">> /\ run[1].scored[2].score = 0
    /\ run[1].scored[3].content = <<" ", "7", "/", "1", "0">>
    /\ run[1].scored[3].score = 7
    /\ run[1].scored[4].content = <<"-", "3">> /\ run[1].scored[4].score = -3

\* The text of a reply without a leading byte order mark and the blanks
\* around it.
Stripped(text) ==
    Trim(IF text # Empty /\ Head(text) = "BOM" THEN Tail(text) ELSE text)

\* t holds a fenced block: a fence and, after it, a closing fence.
HasFencedBlock(t) ==
    \E o \in 1..Len(t), c \in 1..Len(t) :
        OccursAt(t, Fence, o) /\ OccursAt(t, Fence, c) /\ c >= o + 3

\* The content of the first fenced block of t, from behind the opening
\* fence and its tag "json", if any, up to the closing fence.
FirstBlockContent(t) ==
    LET o    == CHOOSE i \in 1..Len(t) :
                    OccursAt(t, Fence, i) /\ \A j \in 1..(i - 1) : ~OccursAt(t, Fence, j)
        from == IF OccursAt(ToLower(t), JsonTag, o + 3) THEN o + 7 ELSE o + 3
        c    == CHOOSE i \in from..Len(t) :
                    OccursAt(t, Fence, i) /\ \A j \in from..(i - 1) : ~OccursAt(t, Fence, j)
    IN  SubSeq(t, from, c - 1)

\* The candidate the three stages give in their order of priority.
StagedCandidate(text) ==
    LET t      == Stripped(text)
        opens  == {i \in 1..Len(t) : t[i] = "{"}
        closes == {j \in 1..Len(t) : t[j] = "}"}
    IN  IF HasFencedBlock(t) THEN Trim(FirstBlockContent(t))
        ELSE IF \E i \in opens, j \in closes : i < j
             THEN SubSeq(t, CHOOSE i \in opens : \A k \in opens : i <= k,
                            CHOOSE j \in closes : \A k \in closes : k <= j)
        ELSE t

\* C12: the candidate extractJsonFromText gives for a reply is the trimmed
\* content of the first fenced block when the reply holds one, else the slice
\* from the first { to the last } when a } follows a {, else the trimmed
\* reply.  (Stated as claimed; the code violates it.)
C12_StagesInOrder ==
    \A r \in Runs :
        run[r].content # NULL =>
            (IF run[r].candidate = NULL THEN Empty ELSE run[r].candidate)
                = StagedCandidate(run[r].content)

\* C13: tryParseJson throws "no JSON found" exactly for a reply that is empty
\* or blank, and "JSON parse failed" exactly when there is a candidate that
\* does not parse; that error carries the candidate and the original text;
\* the reply "no" is its own candidate and fails to parse.  (Stated as claimed;
\* the code violates it.)
C13_ParseErrors ==
    \A r \in Runs :
        run[r].content # NULL =>
            /\ (run[r].err.message = "No JSON found in response text")
                   <=> (Stripped(run[r].content) = Empty)
            /\ (run[r].err.message = "JSON.parse failed")
                   <=> (run[r].candidate # NULL /\ ~JsonParse(run[r].cleaned).ok)
            /\ (run[r].err.message = "JSON.parse failed") =>
                   /\ run[r].err.candidate \in {run[r].candidate, run[r].cleaned}
                   /\ run[r].err.original = run[r].content
            /\ (run[r].content = TextNotJson) =>
                   /\ run[r].candidate = TextNotJson
                   /\ run[r].err.message = "JSON.parse failed"

\* C14: the text tryParseJson hands to JSON.parse holds no zero-width
\* character and no non-breaking space at any position.  (Stated as claimed;
\* the code violates it.)
C14_CleanedHasNoMarks ==
    \A r \in Runs :
        run[r].cleaned # NULL =>
            \A i \in 1..Len(run[r].cleaned) : run[r].cleaned[i] \notin {"ZWSP", "NBSP"}

\* The run has named its contact (the notice "Recognized" was shown).
Named(r) == \E i \in 1..Len(run[r].notices) : run[r].notices[i] = "recognized"

\* C15: the contact name is the record's name, trimmed, when the record has
\* one that is not blank; otherwise the base name of the image file when that
\* is not empty; otherwise "Unknown Contact".
C15_NameOrFallback ==
    \A r \in Runs :
        Named(r) =>
            LET n == run[r].parsed.fields.name
            IN  run[r].name =
                    IF n.t = "str" /\ Trim(n.v) # Empty THEN Trim(n.v)
                    ELSE IF Image(r).basename # Empty THEN Image(r).basename
                    ELSE UnknownContact

\* a record whose name is blank has been named after the image file
C15_Witness ==
    /\ Named(1)
    /\ run[1].parsed.fields.name = JStr(<<" ", " ">>)
    /\ run[1].name = Image(1).basename

\* s without the blanks at its two ends
Strip(s) ==
    LET solid == {i \in 1..Len(s) : s[i] \notin Blank}
    IN  IF solid = {} THEN Empty
        ELSE SubSeq(s, CHOOSE i \in solid : \A k \in solid : i <= k,
                       CHOOSE j \in solid : \A k \in solid : k <= j)

\* C16: the file name made of a contact name is the name without the
\* characters \ / : " * ? < > | and without the blanks around what is left,
\* or "contact" when nothing is left; it is not empty, holds none of those
\* characters and neither starts nor ends with a blank.
C16_SafeName ==
    \A r \in Runs :
        Named(r) =>
            LET kept == Strip(SelectSeq(run[r].name, LAMBDA c : c \notin Forbidden))
                safe == run[r].safeName
            IN  /\ safe = IF kept = Empty THEN Contact ELSE kept
                /\ safe # Empty
                /\ \A i \in 1..Len(safe) : safe[i] \notin Forbidden
                /\ safe[1] \notin Blank /\ safe[Len(safe)] \notin Blank

\* the name "A/B:C" has named its file ABC
C16_Witness ==
    /\ Named(1)
    /\ run[1].name = <<"A", "/", "B", ":", "C">>
    /\ run[1].safeName = <<"A", "B", "C">>

\* The text of a scalar field in the note as the claim has it: "-" when the
\* field is absent or empty.
OrDash(x) == IF x.t = "str" /\ x.v # Empty THEN x.v ELSE Dash

\* The lines of a list field in the note as the claim has it: one bulleted
\* line per element, or "-" when the list is absent or empty.
ListOrDash(x) ==
    IF x.t = "arr" /\ x.items # <<>>
    THEN [i \in 1..Len(x.items) |-> <<"-", " ">> \o x.items[i]]
    ELSE <<Dash>>

\* C17: the note lists company, position, phones, e-mails, website, address,
\* a rule, the raw text and the embed in that order, each phone and e-mail on
\* a bulleted line of its own, and "-" for every absent or empty scalar field
\* (rawText among them) and list.  (Stated as claimed; the code violates it.)
C17_NoteBody ==
    \A r \in Runs :
        run[r].noteContent # NoNote =>
            LET f == run[r].parsed.fields
            IN  /\ run[r].noteContent.lines =
                      << <<"company:">> \o OrDash(f.company),
                         <<"position:">> \o OrDash(f.position),
                         <<"phones:">> >>
                      \o ListOrDash(f.phones)
                      \o << <<"email:">> >>
                      \o ListOrDash(f.emails)
                      \o << <<"website:">> \o OrDash(f.website),
                            <<"address:">> \o OrDash(f.address),
                            Empty,
                            <<"---">>,
                            Empty,
                            <<"fulltext:">>,
                            OrDash(f.rawText) >>
                /\ run[r].noteContent.embed = run[r].imageEmbed

\* The number of error notices a run has shown.
Errors(rec) == Len(SelectSeq(rec.notices, LAMBDA n : n = "error"))

\* C18: a run that has failed takes no further step (nothing later runs,
\* nothing is retried); it has shown exactly one error notice, as its last
\* notice, and has returned; a run that has not failed has shown none.
C18_FailureEndsRun ==
    [][\A r \in Runs :
          /\ run[r].pc = "failed" => run'[r] = run[r]
          /\ run'[r].pc = "failed" =>
                /\ Errors(run'[r]) = 1
                /\ run'[r].notices[Len(run'[r].notices)] = "error"
          /\ run'[r].pc # "failed" => Errors(run'[r]) = 0]_vars

\* a run has failed on a reply that does not parse, after five requests
C18_Witness ==
    /\ run[1].pc = "failed"
    /\ run[1].err.message = "JSON.parse failed"
    /\ Len(run[1].reqs) = 5
    /\ Errors(run[1]) = 1

\* C19: when a run has failed before its note was created, no note of the
\* run exists and the image is a file at its original path under its
\* original name.  (Stated as claimed; the code violates it.)
C19_FailureLeavesVault ==
    \A r \in Runs :
        (run[r].pc = "failed" /\ ~NoteMade(r)) =>
            /\ NotesOf(r) = {}
            /\ IsTFile(vault, FilePath(Image(r)))
            /\ vault[FilePath(Image(r))].id = r
            /\ run[r].file = Image(r)

\* C20: every request names the model that the settings hold when the
\* request is sent.  (Stated as claimed; the code violates it.)
C20_RequestsNameSetModel ==
    [][\A r \in Runs :
          Len(run'[r].reqs) > Len(run[r].reqs) =>
              run'[r].reqs[Len(run'[r].reqs)].model = settings.model]_vars

\* C21: the data URL of every request carries the MIME type that getMimeType
\* gives for the image file of the run.  (Stated as claimed; the code
\* violates it.)
C21_RequestMimeOfFile ==
    \A r \in Runs :
        \A i \in 1..Len(run[r].reqs) : run[r].reqs[i].mime = getMimeType(Image(r))

\* C22: a run has at most one request in flight: a request goes out only in
\* a step in which the run is not waiting for a response or receives the one
\* it waits for; each scoring request follows the reply to the previous one;
\* the extraction request follows the four scores and carries the buffer
\* detectBestRotation returned; rename, create and delete follow the
\* extraction response in that order.
C22_OneRequestAtATime ==
    [][\A r \in Runs :
          LET a == run[r]
              b == run'[r]
          IN  /\ Len(b.reqs) <= Len(a.reqs) + 1
              /\ Len(b.reqs) > Len(a.reqs) => a.pc \in {"read", "rotate", "score"}
              /\ b.pc = "score" =>
                    /\ Len(b.reqs) = Len(b.scored) + 1
                    /\ b.reqs[Len(b.reqs)].kind = "score"
              /\ b.pc = "rotate" => Len(b.reqs) = Len(b.scored)
              /\ b.pc = "extract" =>
                    /\ Len(b.scored) = 4 /\ Len(b.reqs) = 5
                    /\ \A i \in 1..4 : b.reqs[i].kind = "score"
                    /\ b.reqs[5].kind = "extract"
                    /\ b.reqs[5].data = arrayBufferToBase64(b.buffer)
                    /\ \E i \in 1..4 : /\ b.scored[i].deg = b.rotation
                                       /\ b.scored[i].buffer = b.buffer
              /\ (b.pc = "rename" /\ a.pc # b.pc) => a.pc = "extract"
              /\ (b.pc = "create" /\ a.pc # b.pc) => a.pc = "rename"
              /\ (b.pc = "delete" /\ a.pc # b.pc) => a.pc = "create"
              /\ (b.pc = "done" /\ a.pc # b.pc) => a.pc = "delete"
              /\ b.pc \in {"rename", "create", "delete", "done"} => b.reqs = a.reqs]_vars

\* a run has completed after sending the image turned by 90 degrees
C22_Witness ==
    /\ run[1].pc = "done"
    /\ run[1].rotation = 90
    /\ Len(run[1].reqs) = 5
    /\ run[1].reqs[5].data = arrayBufferToBase64(rotateArrayBuffer(FileBytes(1), 90))

\* C23: a response whose status is not 200 fails the run with an error that
\* carries the status and the body; the step sends no request and touches no
\* file, the run has named no contact, has no note, and its image is where
\* and as it was; after a refused scoring request no extraction request has
\* been sent.
C23_RefusalFailsRun ==
    [][\A r \in Runs :
          LET a == run[r]
              b == run'[r]
          IN  b.status \notin {0, StatusOk} =>
                /\ b.pc = "failed"
                /\ b.err.message = "OpenAI API error"
                /\ b.err.status = b.status
                /\ b.err.text = Refusal
                /\ a.pc # "failed" => (b.reqs = a.reqs /\ vault' = vault)
                /\ \A i \in 1..(Len(b.reqs) - 1) : b.reqs[i].kind = "score"
                /\ Len(b.reqs) <= 5
                /\ b.file = Image(r)
                /\ IsTFile(vault', FilePath(Image(r)))
                /\ b.noteContent = NoNote
                /\ \A i \in 1..Len(b.notices) : b.notices[i] # "recognized"]_vars

\* the scoring request for the second angle has been refused
C23_Witness ==
    /\ run[1].pc = "failed"
    /\ run[1].status = 401
    /\ Len(run[1].reqs) = 2
    /\ run[1].err.status = 401

\* C24: nothing keeps two runs from choosing the same note path; when the
\* path a run has chosen is taken by the time its vault.create completes,
\* that creation fails and changes nothing.
C24_SecondCreateFails ==
    [][\A r \in Runs :
          (run[r].pc = "create" /\ run'[r] # run[r] /\ Exists(vault, run[r].notePath)) =>
              /\ run'[r].pc = "failed"
              /\ vault' = vault]_vars

\* both runs have chosen the same path, which is still free, and wait for
\* vault.create
C24_Witness ==
    /\ run[1].pc = "create" /\ run[2].pc = "create"
    /\ run[1].notePath = run[2].notePath
    /\ ~Exists(vault, run[1].notePath)

\* The run has returned.
Terminated(r) == run[r].pc \in {"done", "failed", "nokey", "ignored"}

\* C25: when every call a run awaits returns or fails in the end, every run
\* that has started ends, by completing or at its first failure.
C25_RunsTerminate ==
    \A r \in Runs : (run[r].pc # "idle") ~> Terminated(r)

\* a run has completed after the probe passed two taken paths
C25_Witness ==
    /\ run[1].pc = "done"
    /\ run[1].notePath = NumberedPath(RootDir, Foo, 2)
    /\ NoteMade(1)

\* C26: an image is renamed and a note created only when the reply parsed
\* to a JSON object.  (Stated as claimed; the code violates it.)
C26_OnlyObjectsMakeNotes ==
    \A r \in Runs :
        (run[r].file # Image(r) \/ run[r].noteContent # NoNote \/ NotesOf(r) # {}) =>
            run[r].parsed.kind = "obj"

\* C27: an extraction reply without content is read as the text "{}": the
\* run does not fail on it, the contact and the note are named after the
\* image's base name, and every field of the note is the placeholder "-";
\* only an empty or blank content gives "no JSON found".  (Stated as
\* claimed; the code violates it.)
C27_MissingContent ==
    \A r \in Runs :
        /\ run[r].content = TextEmptyObject =>
              /\ run[r].err.message \notin
                    {"No JSON found in response text", "JSON.parse failed", "TypeError"}
              /\ run[r].parsed = JObject(<<>>)
              /\ run[r].name = Image(r).basename
              /\ run[r].safeName = Image(r).basename
              /\ run[r].noteContent # NoNote =>
                    /\ run[r].notePath[2] = Image(r).basename \o Md
                    /\ run[r].noteContent.lines =
                          << <<"company:">> \o Dash,
                             <<"position:">> \o Dash,
                             <<"phones:">>, Dash,
                             <<"email:">>, Dash,
                             <<"website:">> \o Dash,
                             <<"address:">> \o Dash,
                             Empty, <<"---">>, Empty,
                             <<"fulltext:">>, Dash >>
        /\ run[r].err.message = "No JSON found in response text" =>
              (run[r].content # NULL /\ Stripped(run[r].content) = Empty)

C29_OnlyImageEventsStartRuns ==
    \A r \in Runs :
        LET imageEvents == IF run[r].pc # "idle" /\ IsImageExtension(Image(r).extension)
                           THEN 1 ELSE 0
            started     == IF run[r].pc \notin {"idle", "ignored"} THEN 1 ELSE 0
        IN  /\ run[r].calls = started
            /\ run[r].calls <= imageEvents
            /\ Cardinality({i \in 1..Len(run[r].notices) :
                               run[r].notices[i] = "processing"}) = started
            /\ NotesOf(r) # {} => ~IsImageExtension(Extension(run[r].notePath[2]))

C29_Witness ==
    /\ run[1].pc = "done"
    /\ NoteMade(1)
    /\ run[1].events = 2
    /\ run[1].calls = 1
    /\ Extension(run[1].notePath[2]) = <<"m", "d">>
    /\ ~Exists(vault, FilePath(Image(1)))

====
